---------------------------- MODULE Spec2Model ----------------------------
(***************************************************************************)
(* Model of the retrieval core of caps-be.                                 *)
(*                                                                         *)
(* Part I  (SpecRetrieve): the multi-context retriever of src/main.py, the *)
(*   Chroma collections built by setup_chroma_db, query_crime_data and     *)
(*   multi_context_query.                                                  *)
(* Part II (Spec): the incident sync adapter, src/core/rag/vectore_store.py*)
(*   and incidents_vectorstore.py driven by IncidentService, by the        *)
(*   application start-up and by the similar-incidents route;              *)
(*   SpecConcurrent is the same index behind several server processes.     *)
(* Part III (SpecSetup): engineer_features, generate_embeddings and        *)
(*   setup_chroma_db of src/main.py.                                       *)
(* Part IV (SpecRate): the rate limiter, src/middlewares/rate_limiter.py.  *)
(* Part V  (SpecReports): ReportService, src/apps/reports/services.py.     *)
(* Part VI (SpecPerm): check_permissions, src/core/utils/security.py.      *)
(*                                                                         *)
(* Numbers.  Distances and weights are exact non-negative integers (a      *)
(* distance in tenths, a weight in units of 0.05); a score is the exact    *)
(* rational [num, den] with den > 0.  Floating-point rounding is not       *)
(* modelled.                                                               *)
(***************************************************************************)
EXTENDS Integers, Sequences, FiniteSets, TLC

VARIABLES
    \* ---- Part I: src/main.py
    collections,   \* view name -> (record id -> distance of its vector to the query)
    df_len,        \* len(df)
    op,            \* the function called last: "none", "multi", "single"
    weights,       \* argument weights: [is_none, items], items the sequence of the dict's items
    context_type,  \* argument context_type of query_crime_data
    n_results,     \* argument n_results
    failing,       \* the views whose collection.query raises during the call
    queried,       \* the views whose collection.query was called
    doc_scores,    \* the dict doc_scores when the call ended, as the sequence of its items
    result,        \* what the call did: [kind |-> "ok", ids |-> ...] or [kind |-> "raise", ...]
    repeated,      \* history: the call has the function and the arguments of the call before it
    \* ---- Part II: src/core/rag, src/apps/incidents/services.py, src/app.py
    db,            \* the incidents table: incident id -> content of its row, NoRow when none
    next_id,       \* how many ids uuid4() has handed out
    index,         \* the rows of the "incidents" collection: row -> how many copies
    embed_len,     \* the length of the vectors the embedding model returns
    filter_kwarg,  \* whether the installed store's delete acts on a filter keyword
    store_up,      \* whether the store answers; when not, every call to it raises
    pc,            \* worker -> the step its request is at, "idle" when it has none
    req,           \* worker -> the request in progress
    ret,           \* what the call that returned last returned
    deleted,       \* history: ids whose delete from the index has returned and that
                   \* no add has put into the index since
    committed,     \* history: ids whose row create_incident has committed
    \* ---- Part III: src/main.py, building the collections
    n_records,     \* len(df)
    df_columns,    \* the columns of df
    embeddings,    \* the keys of the dict generate_embeddings returned
    chroma,        \* the collections of the client: name -> [exists, ids]
    setup_pc,      \* where main() is: "loaded", "engineered", "embedded", "done", "raised"
    setup_i,       \* how many passes of the loop of setup_chroma_db are done
    setup_collections, \* the keys of the dict collections of setup_chroma_db
    \* ---- Part IV: src/middlewares/rate_limiter.py
    now,           \* time.time()
    client,        \* the client whose requests arrive
    requests,      \* self.requests: identifier -> sequence of [timestamp, count]
    response,      \* the response of the last dispatch and when it was given
    admitted,      \* history: the times of the requests handed to call_next in
                   \* the last window_size seconds
    \* ---- Part V: src/apps/reports/services.py
    report,        \* the row of the report in the table
    rpc,           \* call -> the step it is at, "idle" when it is not running
    loaded,        \* call -> the object its session holds
    rret,          \* call -> what it did last
    \* ---- Part VI: src/core/utils/security.py
    user,          \* the row of the user: [role, permissions]
    required,      \* the permissions the last request's route requires
    outcome        \* what check_permissions did for the last request

varsRetrieve == <<collections, df_len, op, weights, context_type, n_results,
                  failing, queried, doc_scores, result, repeated>>

varsSync == <<db, next_id, index, embed_len, filter_kwarg, store_up,
              pc, req, ret, deleted, committed>>

varsSetup == <<n_records, df_columns, embeddings, chroma, setup_pc, setup_i,
               setup_collections>>

varsRate == <<now, client, requests, response, admitted>>

varsReports == <<report, rpc, loaded, rret>>

varsPerm == <<user, required, outcome>>

vars == <<varsRetrieve, varsSync, varsSetup, varsRate, varsReports, varsPerm>>

-----------------------------------------------------------------------------
(* Bounds of Part I *)

\* records of an ordinary data set: ids 0 .. NumRecords-1
NumRecords == 2

\* distances of an ordinary data set: 0 .. MaxDist
MaxDist == 2

\* weights a caller passes: 0 .. MaxWeight
MaxWeight == 1

\* n_results a caller passes: 1 .. MaxK
MaxK == 3

\* The views modelled, two of the five of setup_chroma_db.
Views == {"geo_context", "temporal_context"}

None == "None"

RecordIds == 0 .. (NumRecords - 1)

Dists == 0 .. MaxDist

-----------------------------------------------------------------------------
(* Exact rationals for the scores *)

Zero == [num |-> 0, den |-> 1]

RatAdd(a, b) == [num |-> a.num * b.den + b.num * a.den, den |-> a.den * b.den]

RatGt(a, b) == a.num * b.den > b.num * a.den

RatEq(a, b) == a.num * b.den = b.num * a.den

-----------------------------------------------------------------------------
(* The Chroma collections *)

\* setup_chroma_db: every collection is created anew and holds one entry for
\* each record of df, ids "0" .. str(len(df)-1).  The embedding model fixes
\* the distance of each entry to the query text; any distances are possible.
OrdinaryData == [Views -> [RecordIds -> Dists]]

\* The data of the spec's scenario: temporal holds A, B, C (ids 0, 1, 2) at
\* distances 0.1, 0.5, 0.9 and geographic holds B, C at 0.2, 0.4.
ScenarioData ==
    [v \in Views |->
        IF v = "temporal_context"
        THEN (0 :> 1) @@ (1 :> 5) @@ (2 :> 9)
        ELSE (1 :> 2) @@ (2 :> 4)]

\* Collections of which geo_context holds no entry, the case line 235
\* provides for ("if distances else 1.0").
EmptyViewData ==
    {[v \in Views |-> IF v = "geo_context" THEN << >> ELSE coll] :
        coll \in [RecordIds -> Dists]}

\* The ids of coll nearest first; entries at equal distance in id order.
RECURSIVE Nearest(_, _)
Nearest(coll, ids) ==
    IF ids = {} THEN << >>
    ELSE LET i == CHOOSE x \in ids :
                    \A y \in ids :
                        \/ coll[x] < coll[y]
                        \/ (coll[x] = coll[y] /\ x <= y)
         IN  <<i>> \o Nearest(coll, ids \ {i})

\* collection.query(query_embeddings, n_results = n): the n nearest entries,
\* fewer when the collection holds fewer; ids and distances in the same order.
CollectionQuery(v, n) ==
    LET coll == collections[v]
        all  == Nearest(coll, DOMAIN coll)
        ids  == SubSeq(all, 1, IF n < Len(all) THEN n ELSE Len(all))
    IN  [ids |-> ids, distances |-> [j \in 1 .. Len(ids) |-> coll[ids[j]]]]

SeqMax(s) == CHOOSE m \in {s[j] : j \in 1 .. Len(s)} : \A j \in 1 .. Len(s) : s[j] <= m


-----------------------------------------------------------------------------
(* The dict doc_scores: the sequence of its items [id, score] in insertion   *)
(* order, which is the order doc_scores.items() yields.                      *)

HasKey(d, id) == \E j \in 1 .. Len(d) : d[j].id = id

DictGet(d, id, default) ==
    IF HasKey(d, id) THEN (d[CHOOSE j \in 1 .. Len(d) : d[j].id = id]).score ELSE default

\* d[id] = score: a key already present keeps its place.
DictSet(d, id, score) ==
    IF HasKey(d, id)
    THEN [j \in 1 .. Len(d) |-> IF d[j].id = id THEN [id |-> id, score |-> score] ELSE d[j]]
    ELSE Append(d, [id |-> id, score |-> score])

\* items left in the order of the dict
Unsorted(d) == d

\* sorted(items, key = score, reverse = True): descending, and stable, so items
\* of equal score keep the order they have in d.
SortedByScore(d) ==
    LET rank(j) == Cardinality({i \in 1 .. Len(d) : RatGt(d[i].score, d[j].score)})
                 + Cardinality({i \in 1 .. (j - 1) : RatEq(d[i].score, d[j].score)})
    IN  [r \in 1 .. Len(d) |-> d[CHOOSE j \in 1 .. Len(d) : rank(j) = r - 1]]

\* lines 212-218, the default weights of the views modelled, in units of 0.05
DefaultWeights ==
    << [view |-> "geo_context", weight |-> 4], [view |-> "temporal_context", weight |-> 4] >>

\* a score that grows with the distance
ViewScoreOfDistance(distance, max_dist, weight) ==
    [num |-> distance * weight, den |-> max_dist]

\* a score that falls with the distance and is not 0 for the farthest
ViewScoreReciprocal(distance, max_dist, weight) ==
    [num |-> weight, den |-> 1 + distance]

\* a score with the sign of the difference turned: (distance / max_dist - 1) * weight
ViewScoreNegated(distance, max_dist, weight) ==
    [num |-> (distance - max_dist) * weight, den |-> max_dist]

\* line 239: score = (1 - (distances[i] / max_dist)) * weight
ViewScore(distance, max_dist, weight) ==
    [num |-> (max_dist - distance) * weight, den |-> max_dist]

\* lines 238-240 for the entries j .. Len(ids) of one view's result
RECURSIVE AddScores(_, _, _, _, _)
AddScores(d, res, max_dist, weight, j) ==
    IF j > Len(res.ids) THEN d
    ELSE LET score == ViewScore(res.distances[j], max_dist, weight)
         IN  AddScores(DictSet(d, res.ids[j], RatAdd(DictGet(d, res.ids[j], Zero), score)),
                       res, max_dist, weight, j + 1)

\* a pass that scores only the records the views before it have returned
ProcessViewOfPresent(acc, it, down, n) ==
    IF acc.raised # None THEN acc
    ELSE IF it.view \in down
    THEN [acc EXCEPT !.queried = @ \cup {it.view}, !.raised = "IndexUnavailable"]
    ELSE LET all      == CollectionQuery(it.view, n)
             keep     == SelectSeq([j \in 1 .. Len(all.ids) |-> j],
                                   LAMBDA j : acc.queried = {} \/ HasKey(acc.doc_scores, all.ids[j]))
             res      == [ids       |-> [a \in 1 .. Len(keep) |-> all.ids[keep[a]]],
                          distances |-> [a \in 1 .. Len(keep) |-> all.distances[keep[a]]]]
             max_dist == IF Len(all.distances) > 0 THEN SeqMax(all.distances) ELSE 1
         IN  IF Len(all.ids) > 0 /\ max_dist = 0
             THEN [acc EXCEPT !.queried = @ \cup {it.view}, !.raised = "ZeroDivisionError"]
             ELSE [acc EXCEPT !.queried = @ \cup {it.view},
                              !.doc_scores = AddScores(@, res, max_dist, it.weight, 1)]

\* a pass that leaves a failing view out and goes on
ProcessViewSkipFailed(acc, it, down, n) ==
    IF acc.raised # None THEN acc
    ELSE IF it.view \in down
    THEN [acc EXCEPT !.queried = @ \cup {it.view}]
    ELSE LET res      == CollectionQuery(it.view, n)
             max_dist == IF Len(res.distances) > 0 THEN SeqMax(res.distances) ELSE 1
         IN  IF Len(res.ids) > 0 /\ max_dist = 0
             THEN [acc EXCEPT !.queried = @ \cup {it.view}, !.raised = "ZeroDivisionError"]
             ELSE [acc EXCEPT !.queried = @ \cup {it.view},
                              !.doc_scores = AddScores(@, res, max_dist, it.weight, 1)]

\* One pass of the loop of line 224 for the item it of weights; acc is
\* [doc_scores, queried, raised].  An exception leaves the loop: nothing in
\* multi_context_query catches it.
ProcessView(acc, it, down, n) ==
    IF acc.raised # None THEN acc
    ELSE IF it.view \in down
    THEN [acc EXCEPT !.queried = @ \cup {it.view}, !.raised = "IndexUnavailable"]
    ELSE LET res      == CollectionQuery(it.view, n)
             max_dist == IF Len(res.distances) > 0 THEN SeqMax(res.distances) ELSE 1
         IN  IF Len(res.ids) > 0 /\ max_dist = 0
             THEN [acc EXCEPT !.queried = @ \cup {it.view}, !.raised = "ZeroDivisionError"]
             ELSE [acc EXCEPT !.queried = @ \cup {it.view},
                              !.doc_scores = AddScores(@, res, max_dist, it.weight, 1)]

RECURSIVE QueryLoop(_, _, _, _, _)
QueryLoop(acc, w, down, n, j) ==
    IF j > Len(w) THEN acc
    ELSE QueryLoop(ProcessView(acc, w[j], down, n), w, down, n, j + 1)

\* a call that treats an empty dict like None
UsedWeightsIfFalsy(w) == IF w.is_none \/ w.items = << >> THEN DefaultWeights ELSE w.items

\* lines 210-218: only None is replaced by the default weights
UsedWeights(w) == IF w.is_none THEN DefaultWeights ELSE w.items

\* a dict that outlives the call
StaleDocScores == doc_scores

\* line 221: every call starts from an empty dict
InitialDocScores == << >>

\* multi_context_query(query_text, df, collections, weights = w, n_results = k)
\* while the views of down are failing
MultiContextQuery(w, k, down) ==
    LET acc  == QueryLoop([doc_scores |-> InitialDocScores, queried |-> {}, raised |-> None],
                          UsedWeights(w), down, df_len, 1)
        top  == SortedByScore(acc.doc_scores)
        m    == IF k < Len(top) THEN k ELSE Len(top)
    IN  [doc_scores |-> acc.doc_scores,
         queried    |-> acc.queried,
         result     |-> IF acc.raised # None
                        THEN [kind |-> "raise", error |-> acc.raised]
                        ELSE [kind |-> "ok", ids |-> [j \in 1 .. m |-> top[j].id]]]

\* query_crime_data(query_text, df, collections, context_type = v, n_results = k)
QueryCrimeData(v, k, down) ==
    IF v \in down THEN [kind |-> "raise", error |-> "IndexUnavailable"]
    ELSE [kind |-> "ok", ids |-> CollectionQuery(v, k).ids]

-----------------------------------------------------------------------------
(* Part I: state machine *)

Weights == 0 .. MaxWeight

\* weights = None
NoWeights == [is_none |-> TRUE, items |-> << >>]

\* weights = the dict with the items its
Dict(its) == [is_none |-> FALSE, items |-> its]

\* The dicts over the views modelled, each with every order of its keys.
WeightItems ==
    {<< >>}
    \cup {<<[view |-> v, weight |-> x]>> : v \in Views, x \in Weights}
    \cup {d \in {<<[view |-> v1, weight |-> x1], [view |-> v2, weight |-> x2]>> :
                    v1 \in Views, v2 \in Views, x1 \in Weights, x2 \in Weights} :
            d[1].view # d[2].view}

InitRetrieve ==
    /\ \/ collections \in OrdinaryData /\ df_len = NumRecords
       \/ collections \in EmptyViewData /\ df_len = NumRecords
       \/ collections = ScenarioData /\ df_len = 3
    /\ failing \in SUBSET Views
    /\ op = "none"
    /\ weights = NoWeights
    /\ context_type = None
    /\ n_results = 0
    /\ queried = {}
    /\ doc_scores = << >>
    /\ result = [kind |-> "none"]
    /\ repeated = FALSE

CallMultiContextQuery(w, k) ==
    \E r \in {MultiContextQuery(w, k, failing)} :
        /\ op' = "multi"
        /\ weights' = w
        /\ n_results' = k
        /\ context_type' = None
        /\ queried' = r.queried
        /\ doc_scores' = r.doc_scores
        /\ result' = r.result
        /\ repeated' = (op = "multi" /\ weights = w /\ n_results = k)
        /\ UNCHANGED <<collections, df_len, failing>>

CallQueryCrimeData(v, k) ==
    /\ op' = "single"
    /\ context_type' = v
    /\ n_results' = k
    /\ weights' = NoWeights
    /\ queried' = {v}
    /\ doc_scores' = << >>
    /\ result' = QueryCrimeData(v, k, failing)
    /\ repeated' = (op = "single" /\ context_type = v /\ n_results = k)
    /\ UNCHANGED <<collections, df_len, failing>>

NextRetrieve ==
    \/ \E its \in WeightItems, k \in 1 .. MaxK : CallMultiContextQuery(Dict(its), k)
    \/ \E k \in 1 .. MaxK : CallMultiContextQuery(NoWeights, k)
    \/ \E v \in Views, k \in 1 .. MaxK : CallQueryCrimeData(v, k)


-----------------------------------------------------------------------------
(* Part I: properties *)

\* the items of the last call's weights with a positive weight
Positive == {j \in 1 .. Len(weights.items) : weights.items[j].weight > 0}

MultiCall == op = "multi" /\ ~weights.is_none

\* the score multi_context_query gave record id
ScoreOf(id) == DictGet(doc_scores, id, Zero)

\* C2: with exactly one view of positive weight (the others absent or at
\* weight 0) multi_context_query returns the records that the direct query
\* of that view returns for the same n_results, in the same order.  Stated
\* for the calls that return while no view fails.
C2_SinglePositiveWeightIsDirectQuery ==
    (MultiCall /\ failing = {} /\ result.kind = "ok" /\ Cardinality(Positive) = 1)
        => \A j \in Positive :
              result = QueryCrimeData(weights.items[j].view, n_results, failing)

\* C3: when a view of positive weight fails and another view of positive
\* weight is healthy, the call does not fail and returns what the healthy
\* views alone give.
C3_FailedViewIsExcluded ==
    (/\ MultiCall
     /\ \E j \in Positive : weights.items[j].view \in failing
     /\ \E j \in Positive : weights.items[j].view \notin failing)
        => /\ result.kind = "ok"
           /\ result = MultiContextQuery(
                  Dict(SelectSeq(weights.items, LAMBDA it : it.view \notin failing)),
                  n_results, {}).result

\* C4: with weights = {} the call returns the empty result, raises nothing
\* and queries no view, whatever the collections hold and whichever view fails.
C4_EmptyWeightsGiveEmptyResult ==
    (MultiCall /\ weights.items = << >>)
        => /\ result = [kind |-> "ok", ids |-> << >>]
           /\ queried = {}

C4_Witness ==
    /\ MultiCall
    /\ weights.items = << >>
    /\ failing = Views
    /\ \A v \in Views : DOMAIN collections[v] # {}
    /\ result.kind = "ok"

\* C5: with a non-empty weights dict whose weights are all 0 the call returns
\* the empty result.  Stated for the calls that return while no view fails.
C5_AllZeroWeightsGiveEmptyResult ==
    (/\ MultiCall
     /\ failing = {}
     /\ result.kind = "ok"
     /\ weights.items # << >>
     /\ Positive = {})
        => result.ids = << >>

\* C6: on the scenario data with weights {temporal: 1, geographic: 1} and
\* n_results = 3, record B (id 1) is returned first and its fused score is
\* strictly above those of A (id 0) and C (id 2).
C6_ScenarioCall ==
    /\ collections = ScenarioData
    /\ MultiCall
    /\ failing = {}
    /\ n_results = 3
    /\ Len(weights.items) = 2
    /\ \A j \in 1 .. 2 : weights.items[j].weight = 1

C6_ScenarioRanksBFirst ==
    C6_ScenarioCall
        => /\ result.kind = "ok"
           /\ Len(result.ids) = 3
           /\ result.ids[1] = 1
           /\ RatGt(ScoreOf(1), ScoreOf(0))
           /\ RatGt(ScoreOf(1), ScoreOf(2))

C6_Witness ==
    /\ C6_ScenarioCall
    /\ weights.items[1].view = "temporal_context"
    /\ result = [kind |-> "ok", ids |-> <<1, 0, 2>>]
    /\ RatEq(ScoreOf(1), [num |-> 17, den |-> 18])
    /\ RatEq(ScoreOf(0), [num |-> 8, den |-> 9])

-----------------------------------------------------------------------------
(* Part II: the incident index.  Bounds *)

\* incident ids uuid4() can hand out: 1 .. NumIncidents
NumIncidents == 2

\* contents a row can have: 1 .. MaxContent
MaxContent == 2

\* rows the collection can hold
MaxEntries == 3

\* k of get_similar_incidents: 1 .. MaxSimilar
MaxSimilar == 2

\* get_incident_vector_store: embedding_dimensions = 768
EmbeddingDimensions == 768

\* VectorStoreConfig takes embedding_model and embedding_dimensions apart: the
\* vectors of the model have the configured length, or another
Lengths == {EmbeddingDimensions, EmbeddingDimensions \div 2}

\* server processes; a process runs one request at a time
Workers == {"w1", "w2"}

IncidentIds == 1 .. NumIncidents

Contents == 1 .. MaxContent

NoRow == 0

\* The embedding model is a function of the text.  A content c stands for a
\* text whose vector lies at distance |c - q| from the vector of query q.
Distance(q, c) == IF q >= c THEN q - c ELSE c - q

\* incident_to_document: the id goes into metadata["id"], the fields into
\* page_content; the Document carries no id of its own.
IncidentToDocument(id, content) == [id |-> id, content |-> content]

-----------------------------------------------------------------------------
(* VectorStore, src/core/rag/vectore_store.py.  The collection is a table    *)
(* whose rows carry a uuid of their own, the Document and its vector: a bag   *)
(* of [id, content, dim].  Each operation is given the bag idx and whether    *)
(* the store is reachable (up), and yields the bag after it and whether it    *)
(* raised.                                                                    *)

AllRows == {[id |-> i, content |-> c, dim |-> n] : i \in IncidentIds, c \in Contents, n \in Lengths}

EmptyIndex == [row \in AllRows |-> 0]

RECURSIVE SetSum(_, _)
SetSum(f, S) ==
    IF S = {} THEN 0
    ELSE LET x == CHOOSE y \in S : TRUE IN f[x] + SetSum(f, S \ {x})

Size(idx) == SetSum(idx, AllRows)

\* the row the store makes of a Document: PGVector embeds page_content with
\* the embedding model and stores the vector whatever its length
RowOf(document) == [id |-> document.id, content |-> document.content, dim |-> embed_len]

\* rows j .. Len(documents) of an insert: PGVector gives each Document
\* without an id a new uuid, so an insert never replaces a row
RECURSIVE InsertRows(_, _, _)
InsertRows(idx, documents, j) ==
    IF j > Len(documents) THEN idx
    ELSE InsertRows([idx EXCEPT ![RowOf(documents[j])] = @ + 1], documents, j + 1)

\* VectorStore.add_documents(documents), lines 230-249
AddDocuments(idx, documents, up) ==
    IF documents = << >> THEN [index |-> idx, raised |-> FALSE]
    ELSE IF ~up THEN [index |-> idx, raised |-> TRUE]
    ELSE [index |-> InsertRows(idx, documents, 1), raised |-> FALSE]

\* a delete that raises when no row matches the filter
DeleteOrRaise(idx, filter, up) ==
    IF ~up \/ (\A row \in AllRows : row.id \in filter => idx[row] = 0)
    THEN [index |-> idx, raised |-> TRUE]
    ELSE [index |-> [row \in AllRows |-> IF row.id \in filter THEN 0 ELSE idx[row]],
          raised |-> FALSE]

\* VectorStore.delete(ids = None, filter = {"id": ...}), lines 274-287, the
\* only form the program calls: self.vector_store.delete(None, filter = ...).
\* PGVector.delete(ids, collection_only, **kwargs) deletes the rows whose uuid
\* is in ids and, with ids = None, deletes nothing: langchain_postgres reads
\* no filter keyword (filter_kwarg = FALSE).  A store that does read it
\* (filter_kwarg = TRUE) deletes the rows whose metadata["id"] matches.
Delete(idx, filter, up) ==
    IF ~up THEN [index |-> idx, raised |-> TRUE]
    ELSE IF filter_kwarg
    THEN [index |-> [row \in AllRows |-> IF row.id \in filter THEN 0 ELSE idx[row]],
          raised |-> FALSE]
    ELSE [index |-> idx, raised |-> FALSE]

\* the copies of the rows of idx
Copies(idx) == {x \in [row : AllRows, n : 1 .. MaxEntries] : x.n <= idx[x.row]}

\* the rows S nearest to q first, rows at equal distance in any order: every
\* order the store can return them in
RECURSIVE Rankings(_, _)
Rankings(S, q) ==
    IF S = {} THEN {<< >>}
    ELSE UNION {{<<x.row>> \o r : r \in Rankings(S \ {x}, q)} :
                x \in {x \in S : \A y \in S :
                         Distance(q, x.row.content) <= Distance(q, y.row.content)}}

\* VectorStore.similarity_search(query, k, filter = {}), lines 184-205: the
\* results it can return
SimilaritySearch(idx, q, k, up) ==
    IF ~up THEN {[docs |-> << >>, raised |-> TRUE]}
    ELSE {[docs |-> SubSeq(r, 1, IF k < Len(r) THEN k ELSE Len(r)), raised |-> FALSE] :
            r \in Rankings(Copies(idx), q)}

-----------------------------------------------------------------------------
(* Part II: state machine.  A request is cut at its calls to the store,      *)
(* where the store's outages and other processes come in between.             *)

NoReq == [id |-> 0, content |-> 0]

\* what a call returned: value is the return value of a service call ("ok" for
\* the formatted incident, "None", "True", "False", "ValueError"), docs the ids
\* get_similar_incidents returned, vs_raised whether its store call raised
Return(o, value, docs, raised) ==
    [op |-> o, value |-> value, docs |-> docs, vs_raised |-> raised]

InitSync ==
    /\ db = [i \in IncidentIds |-> NoRow]
    /\ next_id = 0
    /\ index = EmptyIndex
    /\ embed_len \in Lengths
    /\ filter_kwarg \in BOOLEAN
    /\ store_up = TRUE
    /\ pc = [w \in Workers |-> "idle"]
    /\ req = [w \in Workers |-> NoReq]
    /\ ret = Return("none", "none", << >>, FALSE)
    /\ deleted = {}
    /\ committed = {}

\* what a store call leaves in index and deleted
StoreEffect(r, added, removed) ==
    /\ index' = r.index
    /\ deleted' = IF r.raised THEN deleted ELSE (deleted \ added) \cup removed

\* a request that fails when its store call raised
FinishOrFail(w, o, value, raised) ==
    /\ ret' = Return(o, IF raised THEN "ValueError" ELSE value, << >>, raised)
    /\ pc' = [pc EXCEPT ![w] = "idle"]
    /\ req' = [req EXCEPT ![w] = NoReq]

\* the request of worker w ends
Finish(w, o, value, raised) ==
    /\ ret' = Return(o, value, << >>, raised)
    /\ pc' = [pc EXCEPT ![w] = "idle"]
    /\ req' = [req EXCEPT ![w] = NoReq]

\* a create_incident that goes on to the store although its commit raised
CreateIncidentThenIndex(w, c, ok) ==
    /\ pc[w] = "idle"
    /\ next_id < NumIncidents
    /\ next_id' = next_id + 1
    /\ db' = IF ok THEN [db EXCEPT ![next_id + 1] = c] ELSE db
    /\ committed' = IF ok THEN committed \cup {next_id + 1} ELSE committed
    /\ pc' = [pc EXCEPT ![w] = "create_vs"]
    /\ req' = [req EXCEPT ![w] = [id |-> next_id + 1, content |-> c]]
    /\ UNCHANGED <<ret, index, embed_len, filter_kwarg, store_up, deleted>>

\* IncidentService.create_incident, lines 104-149 and 158-161: the row is
\* committed (ok) or the commit raises SQLAlchemyError
CreateIncidentCommit(w, c, ok) ==
    /\ pc[w] = "idle"
    /\ next_id < NumIncidents
    /\ next_id' = next_id + 1
    /\ IF ok
       THEN /\ db' = [db EXCEPT ![next_id + 1] = c]
            /\ committed' = committed \cup {next_id + 1}
            /\ pc' = [pc EXCEPT ![w] = "create_vs"]
            /\ req' = [req EXCEPT ![w] = [id |-> next_id + 1, content |-> c]]
            /\ UNCHANGED ret
       ELSE /\ ret' = Return("create", "ValueError", << >>, FALSE)
            /\ UNCHANGED <<db, committed, pc, req>>
    /\ UNCHANGED <<index, embed_len, filter_kwarg, store_up, deleted>>

\* create_incident, lines 151-157, with add_incident_to_vector_store
CreateIncidentIndex(w) ==
    /\ pc[w] = "create_vs"
    /\ Size(index) < MaxEntries
    /\ \E r \in {AddDocuments(index, <<IncidentToDocument(req[w].id, req[w].content)>>,
                              store_up)} :
          /\ StoreEffect(r, {req[w].id}, {})
          /\ Finish(w, "create", "ok", r.raised)
    /\ UNCHANGED <<db, next_id, embed_len, filter_kwarg, committed, store_up>>

\* IncidentService.update_incident, lines 171-226 and 235-238
UpdateIncidentCommit(w, id, c, ok) ==
    /\ pc[w] = "idle"
    /\ IF db[id] = NoRow
       THEN /\ ret' = Return("update", "None", << >>, FALSE)
            /\ UNCHANGED <<db, pc, req>>
       ELSE IF ok
       THEN /\ db' = [db EXCEPT ![id] = c]
            /\ pc' = [pc EXCEPT ![w] = "update_vs_delete"]
            /\ req' = [req EXCEPT ![w] = [id |-> id, content |-> c]]
            /\ UNCHANGED ret
       ELSE /\ ret' = Return("update", "ValueError", << >>, FALSE)
            /\ UNCHANGED <<db, pc, req>>
    /\ UNCHANGED <<next_id, index, embed_len, filter_kwarg, committed, store_up, deleted>>

\* an update that adds the new document although its delete raised
UpdateIncidentIndexDeleteAndGoOn(w) ==
    /\ pc[w] = "update_vs_delete"
    /\ \E r \in {Delete(index, {req[w].id}, store_up)} :
          /\ StoreEffect(r, {}, {req[w].id})
          /\ pc' = [pc EXCEPT ![w] = "update_vs_add"]
          /\ UNCHANGED <<req, ret>>
    /\ UNCHANGED <<db, next_id, embed_len, filter_kwarg, committed, store_up>>

\* update_incident_in_vector_store, lines 93-96: the delete; when it raises,
\* lines 103-107 re-raise and update_incident, lines 231-234, logs and returns
UpdateIncidentIndexDelete(w) ==
    /\ pc[w] = "update_vs_delete"
    /\ \E r \in {Delete(index, {req[w].id}, store_up)} :
          /\ StoreEffect(r, {}, {req[w].id})
          /\ IF r.raised
             THEN Finish(w, "update", "ok", TRUE)
             ELSE /\ pc' = [pc EXCEPT ![w] = "update_vs_add"]
                  /\ UNCHANGED <<req, ret>>
    /\ UNCHANGED <<db, next_id, embed_len, filter_kwarg, committed, store_up>>

\* update_incident_in_vector_store, lines 98-102: the add
UpdateIncidentIndexAdd(w) ==
    /\ pc[w] = "update_vs_add"
    /\ Size(index) < MaxEntries
    /\ \E r \in {AddDocuments(index, <<IncidentToDocument(req[w].id, req[w].content)>>,
                              store_up)} :
          /\ StoreEffect(r, {req[w].id}, {})
          /\ Finish(w, "update", "ok", r.raised)
    /\ UNCHANGED <<db, next_id, embed_len, filter_kwarg, committed, store_up>>

\* IncidentService.delete_incident, lines 243-249 and 258-261
DeleteIncidentCommit(w, id, ok) ==
    /\ pc[w] = "idle"
    /\ IF db[id] = NoRow
       THEN /\ ret' = Return("delete", "False", << >>, FALSE)
            /\ UNCHANGED <<db, pc, req>>
       ELSE IF ok
       THEN /\ db' = [db EXCEPT ![id] = NoRow]
            /\ pc' = [pc EXCEPT ![w] = "delete_vs"]
            /\ req' = [req EXCEPT ![w] = [id |-> id, content |-> 0]]
            /\ UNCHANGED ret
       ELSE /\ ret' = Return("delete", "ValueError", << >>, FALSE)
            /\ UNCHANGED <<db, pc, req>>
    /\ UNCHANGED <<next_id, index, embed_len, filter_kwarg, committed, store_up, deleted>>

\* delete_incident, lines 251-257, with delete_incident_from_vector_store
DeleteIncidentIndex(w) ==
    /\ pc[w] = "delete_vs"
    /\ \E r \in {Delete(index, {req[w].id}, store_up)} :
          /\ StoreEffect(r, {}, {req[w].id})
          /\ Finish(w, "delete", "True", r.raised)
    /\ UNCHANGED <<db, next_id, embed_len, filter_kwarg, committed, store_up>>

\* the Documents of the rows of the incidents table with ids i .. NumIncidents
RECURSIVE AllDocuments(_)
AllDocuments(i) ==
    IF i > NumIncidents THEN << >>
    ELSE (IF db[i] = NoRow THEN << >> ELSE <<IncidentToDocument(i, db[i])>>)
         \o AllDocuments(i + 1)

\* populate_incident_vector_store at the start of the server process, before
\* it takes requests: every incident of the table is added; an exception is
\* logged
PopulateIncidentVectorStore ==
    /\ \A w \in Workers : pc[w] = "idle"
    /\ Size(index) + Len(AllDocuments(1)) <= MaxEntries
    /\ \E r \in {AddDocuments(index, AllDocuments(1), store_up)} :
          StoreEffect(r, {i \in IncidentIds : db[i] # NoRow}, {})
    /\ UNCHANGED <<db, next_id, embed_len, filter_kwarg, committed, store_up, pc, req, ret>>

\* what get_similar_incidents(k = k) did: found is the number of documents
\* the search gave it
SimilarReturn(k, found, value, docs, raised) ==
    [op |-> "similar", value |-> value, docs |-> docs, vs_raised |-> raised,
     k |-> k, found |-> found]

\* a lookup that lets the exception of the search through
SimilarIncidentsOrRaise(r) ==
    IF r.raised THEN [value |-> "raise", docs |-> << >>]
    ELSE [value |-> "list", docs |-> [j \in 1 .. Len(r.docs) |-> r.docs[j].id]]

\* incidents_vectorstore.py, lines 123-150: what get_similar_incidents
\* returns when the search gave r.  One entry for each document, made of its
\* metadata (incident_to_document sets every key read here); any exception
\* is logged and [] is returned.
SimilarIncidentsOf(r) ==
    IF r.raised THEN [value |-> "list", docs |-> << >>]
    ELSE [value |-> "list", docs |-> [j \in 1 .. Len(r.docs) |-> r.docs[j].id]]

\* get_similar_incidents(query = q, filters = None, k)
GetSimilarIncidents(q, k) ==
    /\ \E r \in SimilaritySearch(index, q, k, store_up) :
          ret' = SimilarReturn(k, Len(r.docs), SimilarIncidentsOf(r).value,
                               SimilarIncidentsOf(r).docs, r.raised)
    /\ UNCHANGED <<db, next_id, index, embed_len, filter_kwarg, committed, store_up, pc, req, deleted>>

\* what get_similar_incidents_analysis(incident_id = s, k) did: docs is the
\* list similar_incidents_data it built, value the response
AnalysisReturn(s, k, value, docs, raised) ==
    [op |-> "analysis", value |-> value, docs |-> docs, vs_raised |-> raised,
     source |-> s, k |-> k]

\* a lookup that leaves the source incident in its list
KeepSource(metas, s, k) ==
    SubSeq(metas, 1, IF k < Len(metas) THEN k ELSE Len(metas))

\* apps/analytics/routes.py, lines 423-426: the metadata whose id is not the
\* source's, cut to k
RemoveSource(metas, s, k) ==
    LET others == SelectSeq(metas, LAMBDA i : i # s)
    IN  SubSeq(others, 1, IF k < Len(others) THEN k ELSE Len(others))

\* routes.py, lines 429-438: the incidents of the list that session.get finds
FoundIncidents(metas) == SelectSeq(metas, LAMBDA i : db[i] # NoRow)

\* GET /similar-incidents/{incident_id}, routes.py lines 381-465.  A source
\* that is not in the table gives 404.  Otherwise the search query is made of
\* the source's fields and get_similar_incidents is called with k + 1.  Line
\* 450 calls AnalyticsService.analyze_incident_similarities, which
\* analytics_service.py does not define: the AttributeError is turned into a
\* 500 response by line 458, after the list was built.
GetSimilarIncidentsAnalysis(s, k) ==
    /\ IF db[s] = NoRow
       THEN ret' = AnalysisReturn(s, k, "HTTP_404", << >>, FALSE)
       ELSE \E r \in SimilaritySearch(index, db[s], k + 1, store_up) :
               ret' = AnalysisReturn(s, k, "HTTP_500",
                         FoundIncidents(RemoveSource(SimilarIncidentsOf(r).docs, s, k)),
                         r.raised)
    /\ UNCHANGED <<db, next_id, index, embed_len, filter_kwarg, committed, store_up, pc, req, deleted>>

\* the store becomes unreachable, or reachable again
StoreOutage ==
    /\ store_up' = ~store_up
    /\ UNCHANGED <<db, next_id, index, embed_len, filter_kwarg, committed, pc, req, ret, deleted>>

\* the requests of the processes ws
NextSyncOf(ws) ==
    \/ \E w \in ws, c \in Contents, ok \in BOOLEAN : CreateIncidentCommit(w, c, ok)
    \/ \E w \in ws : CreateIncidentIndex(w)
    \/ \E w \in ws, id \in IncidentIds, c \in Contents, ok \in BOOLEAN :
          UpdateIncidentCommit(w, id, c, ok)
    \/ \E w \in ws : UpdateIncidentIndexDelete(w)
    \/ \E w \in ws : UpdateIncidentIndexAdd(w)
    \/ \E w \in ws, id \in IncidentIds, ok \in BOOLEAN : DeleteIncidentCommit(w, id, ok)
    \/ \E w \in ws : DeleteIncidentIndex(w)
    \/ PopulateIncidentVectorStore
    \/ \E q \in Contents, k \in 1 .. MaxSimilar : GetSimilarIncidents(q, k)
    \/ \E s \in IncidentIds, k \in 1 .. MaxSimilar : GetSimilarIncidentsAnalysis(s, k)
    \/ StoreOutage

-----------------------------------------------------------------------------
(* Part III: building the collections, src/main.py: engineer_features,      *)
(* generate_embeddings and setup_chroma_db as main() calls them.            *)

\* records of data.csv: 1 .. MaxRows
MaxRows == 2

\* line 153, the context types in the order of the loop
ContextTypes ==
    << "full_context", "geo_context", "temporal_context",
       "environmental_context", "socioeconomic_context" >>

ContextTypeSet == {ContextTypes[j] : j \in 1 .. Len(ContextTypes)}

\* the columns of df that setup_chroma_db reads for the metadata
RawColumns == {"Crime_Type", "Neighborhood", "Date", "Time_of_Day"}

\* lines 68-104: the columns engineer_features adds, each by df.apply over
\* every row
EngineeredColumns ==
    {"contextual_description", "geo_context", "temporal_context",
     "environmental_context", "socioeconomic_context"}

\* engineer_features(df): the columns of the frame it returns
EngineerFeaturesOf(columns) == columns \cup EngineeredColumns

\* line 169: context_type.replace('full_context', 'contextual_description')
ColumnOf(ct) == IF ct = "full_context" THEN "contextual_description" ELSE ct

\* a collection the client does not hold
NoCollection == [exists |-> FALSE, ids |-> {}]

\* what an earlier run can have left in chroma_db for one name: nothing, or
\* the entries "0" .. str(m-1) of a frame of m records
StaleCollections ==
    {NoCollection} \cup {[exists |-> TRUE, ids |-> 0 .. (m - 1)] : m \in 1 .. (MaxRows + 1)}

\* lines 155-161: client.delete_collection(name) inside try/except.  It
\* raises when there is no such collection, and it can fail for another
\* reason (ok = FALSE); both are printed and passed over.
DeleteCollection(cl, name, ok) ==
    IF cl[name].exists /\ ok THEN [cl EXCEPT ![name] = NoCollection] ELSE cl

\* a client call that hands back the collection of that name when there is one
GetOrCreateCollection(cl, name) ==
    [raised |-> FALSE,
     client |-> IF cl[name].exists THEN cl
                ELSE [cl EXCEPT ![name] = [exists |-> TRUE, ids |-> {}]]]

\* line 164: client.create_collection(name), which raises when the
\* collection exists
CreateCollection(cl, name) ==
    IF cl[name].exists
    THEN [raised |-> TRUE, client |-> cl]
    ELSE [raised |-> FALSE, client |-> [cl EXCEPT ![name] = [exists |-> TRUE, ids |-> {}]]]

\* lines 167-179: collection.add with ids str(0) .. str(len(df) - 1)
CollectionAdd(cl, name, n) ==
    [cl EXCEPT ![name] = [exists |-> TRUE, ids |-> @.ids \cup (0 .. (n - 1))]]

InitSetup ==
    /\ n_records \in 1 .. MaxRows
    /\ df_columns = RawColumns
    /\ embeddings = {}
    /\ chroma \in [ContextTypeSet -> StaleCollections]
    /\ setup_pc = "loaded"
    /\ setup_i = 0
    /\ setup_collections = {}

\* main(), line 333: df = engineer_features(df)
EngineerFeatures ==
    /\ setup_pc = "loaded"
    /\ df_columns' = EngineerFeaturesOf(df_columns)
    /\ setup_pc' = "engineered"
    /\ UNCHANGED <<n_records, embeddings, chroma, setup_i, setup_collections>>

\* generate_embeddings(df), lines 109-141: KeyError when a column is
\* missing, else one array of len(df) vectors under each context type
GenerateEmbeddings ==
    /\ setup_pc = "engineered"
    /\ IF EngineeredColumns \subseteq df_columns
       THEN embeddings' = ContextTypeSet /\ setup_pc' = "embedded"
       ELSE embeddings' = embeddings /\ setup_pc' = "raised"
    /\ UNCHANGED <<n_records, df_columns, chroma, setup_i, setup_collections>>

\* setup_chroma_db, one pass of the loop of lines 153-181; ok says whether
\* delete_collection can go through
SetupPass(ok) ==
    /\ setup_pc = "embedded"
    /\ setup_i < Len(ContextTypes)
    /\ LET ct      == ContextTypes[setup_i + 1]
           cleared == DeleteCollection(chroma, ct, ok)
           created == CreateCollection(cleared, ct)
       IN  IF created.raised \/ ct \notin embeddings \/ ColumnOf(ct) \notin df_columns
           THEN /\ chroma' = created.client
                /\ setup_pc' = "raised"
                /\ UNCHANGED <<setup_i, setup_collections>>
           ELSE /\ chroma' = CollectionAdd(created.client, ct, n_records)
                /\ setup_collections' = setup_collections \cup {ct}
                /\ setup_i' = setup_i + 1
                /\ setup_pc' = setup_pc
    /\ UNCHANGED <<n_records, df_columns, embeddings>>

\* line 183: return client, collections
SetupReturn ==
    /\ setup_pc = "embedded"
    /\ setup_i = Len(ContextTypes)
    /\ setup_pc' = "done"
    /\ UNCHANGED <<n_records, df_columns, embeddings, chroma, setup_i, setup_collections>>

NextSetup ==
    \/ EngineerFeatures
    \/ GenerateEmbeddings
    \/ \E ok \in BOOLEAN : SetupPass(ok)
    \/ SetupReturn

-----------------------------------------------------------------------------
(* Part IV: the rate limiter, src/middlewares/rate_limiter.py.  Time is in  *)
(* whole seconds.  dispatch has no await between reading and writing        *)
(* self.requests, so one dispatch is one step.                              *)

\* the clock moves in steps of Tick seconds
Tick == 30

\* and stops at MaxTime
MaxTime == 90

\* line 18
window_size == 60

\* line 42, the limit of a request with a valid token
AuthenticatedLimit == 100

\* line 42, the limit of any other request
UnauthenticatedLimit == 20

\* The clients: one that sends a token the server signed, whose payload has
\* the sub "u1", and one that sends no token or one that does not verify.
Clients == {[sub |-> "u1", ip |-> "10.0.0.1"], [sub |-> None, ip |-> "10.0.0.1"]}

\* lines 88-100
ExtractUserId(c) == c.sub

\* lines 71-86: f"user_{user_id}" or f"ip_{ip}"
GetIdentifier(c) ==
    IF ExtractUserId(c) # None
    THEN [prefix |-> "user_", of |-> ExtractUserId(c)]
    ELSE [prefix |-> "ip_", of |-> c.ip]

\* lines 102-104
IsAuthenticated(c) == ExtractUserId(c) # None

Identifiers == {GetIdentifier(c) : c \in Clients}

\* lines 32-35: the entries that are not expired
Kept(entries, current_time) ==
    SelectSeq(entries, LAMBDA e : e.timestamp > current_time - window_size)

\* line 38: sum(count for _, count in entries)
RECURSIVE TotalRequests(_)
TotalRequests(entries) ==
    IF entries = << >> THEN 0 ELSE Head(entries).count + TotalRequests(Tail(entries))

\* line 42
RateLimit(authenticated) ==
    IF authenticated THEN AuthenticatedLimit ELSE UnauthenticatedLimit

\* a test that lets one more request through
ExceededAbove(total_requests, rate_limit) == total_requests > rate_limit

\* line 44
Exceeded(total_requests, rate_limit) == total_requests >= rate_limit

InitRate ==
    /\ now = 0
    /\ client \in Clients
    /\ requests = [i \in Identifiers |-> << >>]
    /\ response = [status_code |-> 0, time |-> 0]
    /\ admitted = << >>

\* RateLimiter.dispatch(request, call_next) for a request of the client, lines
\* 20-69.  A request that is let through is recorded and handed to call_next;
\* its response is given the status 200 here.
Dispatch(c) ==
    /\ c = client
    /\ LET identifier == GetIdentifier(c)
           kept       == Kept(requests[identifier], now)
           rate_limit == RateLimit(IsAuthenticated(c))
       IN  IF Exceeded(TotalRequests(kept), rate_limit)
           THEN /\ requests' = [requests EXCEPT ![identifier] = kept]
                /\ response' = [status_code |-> 429, time |-> now]
                /\ admitted' = admitted
           ELSE /\ requests' = [requests EXCEPT ![identifier] =
                                   Append(kept, [timestamp |-> now, count |-> 1])]
                /\ response' = [status_code |-> 200, time |-> now]
                /\ admitted' = Append(admitted, now)
    /\ UNCHANGED <<now, client>>

\* time passes; admitted keeps the requests of the last window_size seconds
Advance ==
    /\ now + Tick <= MaxTime
    /\ now' = now + Tick
    /\ admitted' = SelectSeq(admitted, LAMBDA t : t > now' - window_size)
    /\ UNCHANGED <<client, requests, response>>

NextRate ==
    \/ \E c \in Clients : Dispatch(c)
    \/ Advance

-----------------------------------------------------------------------------
(* Part V: the reports, src/apps/reports/services.py.  Each call has its    *)
(* own session; a call is cut between its session.get and each commit,     *)
(* where the calls of other processes come in between.                      *)

\* titles a caller gives a report: 0 .. MaxTitle
MaxTitle == 1

Titles == 0 .. MaxTitle

Statuses == {"pending", "draft", "processing", "completed", "failed"}

\* no row of that id
NoReport == [exists |-> FALSE, status |-> "none", title |-> 0]

\* the calls modelled, one of each at a time
ReportCalls == {"update_report", "delete_report", "generate_report_content"}

\* line 147: the statuses in which update_report goes on
UpdateAllowed(status) == status \in {"pending", "draft"}

\* line 180: the statuses in which delete_report goes on
DeleteAllowed(status) == status \notin {"processing"}

InitReports ==
    /\ report \in [exists : {TRUE}, status : Statuses, title : {0}]
    /\ rpc = [c \in ReportCalls |-> "idle"]
    /\ loaded = [c \in ReportCalls |-> NoReport]
    /\ rret = [c \in ReportCalls |-> "none"]

\* the call c ends with the outcome value
ReportReturn(c, value) ==
    /\ rpc' = [rpc EXCEPT ![c] = "idle"]
    /\ rret' = [rret EXCEPT ![c] = value]

\* PUT /reports/{id} and update_report, lines 144-163: the row is read, the
\* status tested, the object changed in memory.  The route answers 404 when
\* there is no row.
UpdateReportGet(t) ==
    /\ rpc["update_report"] = "idle"
    /\ IF ~report.exists
       THEN ReportReturn("update_report", "HTTP_404") /\ UNCHANGED loaded
       ELSE IF ~UpdateAllowed(report.status)
       THEN ReportReturn("update_report", "ValueError") /\ UNCHANGED loaded
       ELSE /\ loaded' = [loaded EXCEPT !["update_report"] = [report EXCEPT !.title = t]]
            /\ rpc' = [rpc EXCEPT !["update_report"] = "commit"]
            /\ UNCHANGED rret
    /\ UNCHANGED report

\* update_report, lines 166-168: the commit writes the columns that were
\* changed to the row of that id; the status is not one of them
UpdateReportCommit ==
    /\ rpc["update_report"] = "commit"
    /\ IF report.exists
       THEN /\ report' = [report EXCEPT !.title = loaded["update_report"].title]
            /\ ReportReturn("update_report", "report")
       ELSE /\ report' = report
            /\ ReportReturn("update_report", "StaleDataError")
    /\ UNCHANGED loaded

\* delete_report, lines 175-181
DeleteReportGet ==
    /\ rpc["delete_report"] = "idle"
    /\ IF ~report.exists
       THEN ReportReturn("delete_report", "False") /\ UNCHANGED loaded
       ELSE IF ~DeleteAllowed(report.status)
       THEN ReportReturn("delete_report", "ValueError") /\ UNCHANGED loaded
       ELSE /\ loaded' = [loaded EXCEPT !["delete_report"] = report]
            /\ rpc' = [rpc EXCEPT !["delete_report"] = "commit"]
            /\ UNCHANGED rret
    /\ UNCHANGED report

\* delete_report, lines 183-186
DeleteReportCommit ==
    /\ rpc["delete_report"] = "commit"
    /\ report' = NoReport
    /\ ReportReturn("delete_report", "True")
    /\ UNCHANGED loaded

\* generate_report_content, lines 191-193
GenerateReportGet ==
    /\ rpc["generate_report_content"] = "idle"
    /\ IF ~report.exists
       THEN ReportReturn("generate_report_content", "None") /\ UNCHANGED loaded
       ELSE /\ loaded' = [loaded EXCEPT !["generate_report_content"] = report]
            /\ rpc' = [rpc EXCEPT !["generate_report_content"] = "commit_processing"]
            /\ UNCHANGED rret
    /\ UNCHANGED report

\* generate_report_content, lines 196-198: status = "processing" is committed
GenerateReportProcessing ==
    /\ rpc["generate_report_content"] = "commit_processing"
    /\ IF report.exists
       THEN /\ report' = [report EXCEPT !.status = "processing"]
            /\ rpc' = [rpc EXCEPT !["generate_report_content"] = "commit_done"]
            /\ UNCHANGED rret
       ELSE /\ report' = report
            /\ ReportReturn("generate_report_content", "StaleDataError")
    /\ UNCHANGED loaded

\* generate_report_content, lines 200-268: the content is made and
\* status = "completed" is committed, or "failed" when making it raised
GenerateReportDone(status) ==
    /\ rpc["generate_report_content"] = "commit_done"
    /\ IF report.exists
       THEN /\ report' = [report EXCEPT !.status = status]
            /\ ReportReturn("generate_report_content", "report")
       ELSE /\ report' = report
            /\ ReportReturn("generate_report_content", "StaleDataError")
    /\ UNCHANGED loaded

NextReports ==
    \/ \E t \in Titles : UpdateReportGet(t)
    \/ UpdateReportCommit
    \/ DeleteReportGet
    \/ DeleteReportCommit
    \/ GenerateReportGet
    \/ GenerateReportProcessing
    \/ \E s \in {"completed", "failed"} : GenerateReportDone(s)

-----------------------------------------------------------------------------
(* Part VI: permissions, src/core/utils/security.py: check_permissions, and *)
(* the calls that write the permissions column of a user.                   *)

\* three of the permission names the routes require
Perms == {"view_incidents", "delete_incidents", "create_reports"}

\* apps/auth/models.py, line 30
Roles == {"admin", "analyst", "officer"}

\* The column permissions is JSON: None, a dict (items: its keys and their
\* values) or a list (items: its members, each mapped to TRUE).
NoPermissions == [kind |-> "None", items |-> << >>]

DictPermissions == {[kind |-> "dict", items |-> f] : f \in UNION {[S -> BOOLEAN] : S \in SUBSET Perms}}

\* AuthService.register_user, lines 71-102: the dict of the role, every
\* value True
RegisterPermissions(role) ==
    LET names == IF role = "admin" THEN Perms
                 ELSE IF role = "analyst" THEN {"view_incidents", "create_reports"}
                 ELSE IF role = "officer" THEN {"view_incidents"}
                 ELSE {}
    IN  [kind |-> "dict", items |-> [p \in names |-> TRUE]]

\* UserService._get_default_permissions, apps/users/services.py lines
\* 158-178: a list of names
DefaultPermissions(role) ==
    LET names == IF role = "analyst" THEN {"view_incidents", "create_reports"}
                 ELSE IF role = "officer" THEN {"view_incidents"}
                 ELSE {}
    IN  [kind |-> "list", items |-> [p \in names |-> TRUE]]

\* security.py, lines 119-120: current_user.permissions or {}, and its keys
\* when it is a dict, [] when not
UserPermissionKeys(permissions) ==
    IF permissions.kind = "dict" THEN DOMAIN permissions.items ELSE {}

\* check_permissions(required)(current_user), lines 109-133: the user is
\* returned, or HTTPException 403 is raised
CheckPermissions(current_user, required_permissions) ==
    IF current_user.role = "admin" THEN "user"
    ELSE IF \A perm \in required_permissions :
                perm \in UserPermissionKeys(current_user.permissions)
    THEN "user"
    ELSE "HTTP_403"

InitPerm ==
    /\ user \in {[role |-> r, permissions |-> RegisterPermissions(r)] : r \in Roles}
    /\ required = {}
    /\ outcome = "none"

\* POST /auth/register, AuthService.register_user
RegisterUser(role) ==
    /\ user' = [role |-> role, permissions |-> RegisterPermissions(role)]
    /\ required' = {}
    /\ outcome' = "none"

\* UserService.create_user, apps/users/services.py lines 65-100
CreateUser(role) ==
    /\ user' = [role |-> role, permissions |-> DefaultPermissions(role)]
    /\ required' = {}
    /\ outcome' = "none"

\* UserService.update_user, lines 103-143, with permissions set in user_data
\* (UserUpdate.permissions: Optional[Dict[str, Any]])
UpdateUser(permissions) ==
    /\ user' = [user EXCEPT !.permissions = permissions]
    /\ required' = {}
    /\ outcome' = "none"

\* a request to a route that depends on check_permissions(perms)
CheckPermissionsCall(perms) ==
    /\ required' = perms
    /\ outcome' = CheckPermissions(user, perms)
    /\ user' = user

NextPerm ==
    \/ \E role \in Roles : RegisterUser(role)
    \/ \E role \in Roles : CreateUser(role)
    \/ \E p \in DictPermissions \cup {NoPermissions} : UpdateUser(p)
    \/ \E perms \in SUBSET Perms : CheckPermissionsCall(perms)

-----------------------------------------------------------------------------
(* The specifications: each part runs while the others are at rest. *)

RetrieveAtRest ==
    /\ collections = ScenarioData
    /\ df_len = 3
    /\ failing = {}
    /\ op = "none"
    /\ weights = NoWeights
    /\ context_type = None
    /\ n_results = 0
    /\ queried = {}
    /\ doc_scores = << >>
    /\ result = [kind |-> "none"]
    /\ repeated = FALSE

SyncAtRest ==
    /\ InitSync
    /\ embed_len = EmbeddingDimensions
    /\ filter_kwarg = FALSE

\* the collections are built from a frame of one record, no stale collection
SetupAtRest ==
    /\ InitSetup
    /\ n_records = 1
    /\ chroma = [ct \in ContextTypeSet |-> NoCollection]

RateAtRest ==
    /\ InitRate
    /\ client = [sub |-> None, ip |-> "10.0.0.1"]

ReportsAtRest ==
    /\ InitReports
    /\ report.status = "pending"

PermAtRest ==
    /\ InitPerm
    /\ user.role = "admin"

InitR == InitRetrieve /\ SyncAtRest /\ SetupAtRest /\ RateAtRest /\ ReportsAtRest /\ PermAtRest

NextR == NextRetrieve /\ UNCHANGED <<varsSync, varsSetup, varsRate, varsReports, varsPerm>>

\* the retriever of main.py
SpecRetrieve == InitR /\ [][NextR]_vars

Init == InitSync /\ RetrieveAtRest /\ SetupAtRest /\ RateAtRest /\ ReportsAtRest /\ PermAtRest

Next == NextSyncOf({"w1"}) /\ UNCHANGED <<varsRetrieve, varsSetup, varsRate, varsReports, varsPerm>>

\* the incident index behind one server process (app.py: uvicorn.run, one
\* process, whose async routes run a request to its end)
Spec == Init /\ [][Next]_vars

\* Incident 1 is in the table and in the collection, the store is reachable.
InitConcurrent ==
    /\ db = [i \in IncidentIds |-> IF i = 1 THEN 1 ELSE NoRow]
    /\ next_id = 1
    /\ committed = {1}
    /\ embed_len = EmbeddingDimensions
    /\ index = [row \in AllRows |->
                  IF row = [id |-> 1, content |-> 1, dim |-> EmbeddingDimensions] THEN 1 ELSE 0]
    /\ filter_kwarg \in BOOLEAN
    /\ store_up = TRUE
    /\ pc = [w \in Workers |-> "idle"]
    /\ req = [w \in Workers |-> NoReq]
    /\ ret = Return("none", "none", << >>, FALSE)
    /\ deleted = {}
    /\ RetrieveAtRest /\ SetupAtRest /\ RateAtRest /\ ReportsAtRest /\ PermAtRest

\* update_incident requests served by every process, and searches
NextConcurrent ==
    /\ \/ \E w \in Workers, id \in IncidentIds, c \in Contents, ok \in BOOLEAN :
             UpdateIncidentCommit(w, id, c, ok)
       \/ \E w \in Workers : UpdateIncidentIndexDelete(w)
       \/ \E w \in Workers : UpdateIncidentIndexAdd(w)
       \/ \E q \in Contents, k \in 1 .. MaxSimilar : GetSimilarIncidents(q, k)
    /\ UNCHANGED <<varsRetrieve, varsSetup, varsRate, varsReports, varsPerm>>

\* the incident index behind several server processes that share the
\* database: nothing in vectore_store.py or incidents_vectorstore.py takes a
\* lock, so their store calls interleave
SpecConcurrent == InitConcurrent /\ [][NextConcurrent]_vars

InitS == InitSetup /\ RetrieveAtRest /\ SyncAtRest /\ RateAtRest /\ ReportsAtRest /\ PermAtRest

NextS == NextSetup /\ UNCHANGED <<varsRetrieve, varsSync, varsRate, varsReports, varsPerm>>

\* main() of main.py up to the return of setup_chroma_db
SpecSetup == InitS /\ [][NextS]_vars

InitL == InitRate /\ RetrieveAtRest /\ SyncAtRest /\ SetupAtRest /\ ReportsAtRest /\ PermAtRest

NextL == NextRate /\ UNCHANGED <<varsRetrieve, varsSync, varsSetup, varsReports, varsPerm>>

\* the rate limiter of one server process and the requests of one client
SpecRate == InitL /\ [][NextL]_vars

InitP == InitReports /\ RetrieveAtRest /\ SyncAtRest /\ SetupAtRest /\ RateAtRest /\ PermAtRest

NextP == NextReports /\ UNCHANGED <<varsRetrieve, varsSync, varsSetup, varsRate, varsPerm>>

\* one report and the calls of ReportService on it, each in its own session
SpecReports == InitP /\ [][NextP]_vars

InitC == InitPerm /\ RetrieveAtRest /\ SyncAtRest /\ SetupAtRest /\ RateAtRest /\ ReportsAtRest

NextC == NextPerm /\ UNCHANGED <<varsRetrieve, varsSync, varsSetup, varsRate, varsReports>>

\* one user, the calls that write its permissions and the permission check
SpecPerm == InitC /\ [][NextC]_vars

-----------------------------------------------------------------------------
(* Part II: properties, under Spec *)

\* worker w takes its step
Steps(w) == pc'[w] # pc[w]

\* no row of the collection carries incident id
Absent(idx, id) == \A row \in AllRows : row.id = id => idx[row] = 0

\* C1: once a delete for an incident id has completed in the store, and the id
\* has not been added again, no later get_similar_incidents returns that id.
C1_DeletedIdIsNeverReturned ==
    ret.op = "similar" => \A j \in 1 .. Len(ret.docs) : ret.docs[j] \notin deleted

\* C7: an add whose vectors do not have the configured length (768) raises and
\* leaves the collection as it was.
C7_WrongLengthAddIsRejected ==
    [][\A w \in Workers :
         (/\ pc[w] \in {"create_vs", "update_vs_add"}
          /\ Steps(w)
          /\ embed_len # EmbeddingDimensions)
         => (index' = index /\ ret'.vs_raised)]_vars

\* C9: a delete for an incident id that no row of the collection carries, the
\* store being reachable, raises nothing and leaves the collection as it is.
C9_DeleteOfAbsentIdIsNoOp ==
    [][\A w \in Workers :
         (/\ pc[w] \in {"update_vs_delete", "delete_vs"}
          /\ Steps(w)
          /\ store_up
          /\ Absent(index, req[w].id))
         => /\ index' = index
            /\ pc[w] = "update_vs_delete" => pc'[w] = "update_vs_add"
            /\ pc[w] = "delete_vs" => ~ret'.vs_raised]_vars

\* delete_incident has returned True, its store call raised nothing, and the
\* collection of a store that never removes a row is empty: the id it deleted
\* was in no row
C9_Witness ==
    /\ ret.op = "delete"
    /\ ret.value = "True"
    /\ ~ret.vs_raised
    /\ ~filter_kwarg
    /\ Size(index) = 0

\* C10: the store call of create_incident, update_incident and delete_incident
\* leaves the incidents table as committed, and the call returns its success
\* value (the incident, True) whether or not the store call raised.
C10_StoreFailureKeepsCommit ==
    [][\A w \in Workers :
         (pc[w] \in {"create_vs", "update_vs_delete", "update_vs_add", "delete_vs"}
            /\ Steps(w))
         => /\ db' = db
            /\ db[req[w].id] = (IF pc[w] = "delete_vs" THEN NoRow ELSE req[w].content)
            /\ pc'[w] = "idle" =>
                 ret'.value = (IF pc[w] = "delete_vs" THEN "True" ELSE "ok")]_vars

\* create_incident returned the incident although its add raised, and the row
\* it committed is in the table while the collection has no row
C10_Witness ==
    /\ ret.op = "create"
    /\ ret.value = "ok"
    /\ ret.vs_raised
    /\ db[1] # NoRow
    /\ Size(index) = 0

\* C11: every row of the collection carries the id of an incident whose row
\* create_incident committed, and create_incident is at its store call only
\* with its row committed: after a failed commit no row is ever added.
C11_IndexedIdsWereCommitted ==
    /\ \A row \in AllRows : index[row] > 0 => row.id \in committed
    /\ \A w \in Workers : pc[w] = "create_vs" => req[w].id \in committed

\* the commit of incident 1 failed, incident 2 was committed and added
C11_Witness ==
    /\ next_id = NumIncidents
    /\ committed = {NumIncidents}
    /\ \E row \in AllRows : row.id = NumIncidents /\ index[row] > 0
    /\ ret.op = "create"
    /\ ret.value = "ok"

\* C12: update_incident_in_vector_store first calls the delete for the
\* incident's id, which adds no row; it goes on to the add exactly when the
\* delete returned, and when the delete raised the request ends with the
\* collection as it was; the add removes or rewrites no row.
C12_UpdateDeletesThenAdds ==
    [][\A w \in Workers :
         /\ (pc[w] = "update_vs_delete" /\ Steps(w))
              => /\ \A row \in AllRows : index'[row] <= index[row]
                 /\ (pc'[w] = "update_vs_add") <=> store_up
                 /\ ~store_up => (pc'[w] = "idle" /\ index' = index /\ ret'.vs_raised)
         /\ (pc'[w] = "update_vs_add" /\ Steps(w)) => pc[w] = "update_vs_delete"
         /\ (pc[w] = "update_vs_add" /\ Steps(w))
              => \A row \in AllRows : index'[row] >= index[row]]_vars

\* update_incident has returned after its delete raised, on a store whose
\* delete removes the rows of the id: the row of the old content is still
\* there and no row of the new content was added
C12_Witness ==
    /\ filter_kwarg
    /\ ret.op = "update"
    /\ ret.vs_raised
    /\ \E row \in AllRows :
          /\ index[row] > 0
          /\ db[row.id] # NoRow
          /\ db[row.id] # row.content
          /\ \A other \in AllRows :
                (other.id = row.id /\ other.content = db[row.id]) => index[other] = 0

\* the rows of the collection that carry incident id
CopiesOf(id) == SetSum(index, {row \in AllRows : row.id = id})

\* C13: the list of similar incidents built for a source incident and k holds
\* at most k incidents and never the source, whether the collection holds no,
\* one or several rows of the source.
C13_SimilarExcludesSource ==
    ret.op = "analysis"
        => /\ Len(ret.docs) <= ret.k
           /\ \A j \in 1 .. Len(ret.docs) : ret.docs[j] # ret.source

\* a lookup with k = 1 while the collection holds two rows of the source: the
\* list holds the other incident
C13_Witness ==
    /\ ret.op = "analysis"
    /\ ret.k = 1
    /\ CopiesOf(ret.source) >= 2
    /\ Len(ret.docs) = 1

\* C30: get_similar_incidents returns a list and raises nothing.  When the
\* search raised, the list is empty, which is what a search that found
\* nothing gives.  When it did not, the list has one entry for each document
\* the search gave, and no more than k.
C30_SimilarNeverRaises ==
    ret.op = "similar"
        => /\ ret.value = "list"
           /\ ret.vs_raised
                => /\ ret.docs = << >>
                   /\ [value |-> ret.value, docs |-> ret.docs]
                          = SimilarIncidentsOf([docs |-> << >>, raised |-> FALSE])
           /\ ~ret.vs_raised
                => /\ Len(ret.docs) = ret.found
                   /\ Len(ret.docs) <= ret.k

\* a search that raised while the collection holds a row: the list is empty
C30_Witness ==
    /\ ret.op = "similar"
    /\ ret.vs_raised
    /\ ~store_up
    /\ Size(index) > 0
    /\ ret.docs = << >>

\* C14: the collection holds at most one row for each incident id.
C14_OneRowPerIncident ==
    \A id \in IncidentIds : CopiesOf(id) <= 1

-----------------------------------------------------------------------------
(* Part I: further properties, under SpecRetrieve *)

\* the records multi_context_query gave a score to
Candidates == {doc_scores[j].id : j \in 1 .. Len(doc_scores)}

\* the records the call returned
Returned == {result.ids[j] : j \in 1 .. Len(result.ids)}

\* C15: a call that returns gives at most n_results records, all the
\* candidates when there are no more than n_results, in the order of
\* non-increasing fused score, and no candidate left out has a higher fused
\* score than a record returned.
C15_TopKByFusedScore ==
    (op = "multi" /\ result.kind = "ok")
        => /\ Len(result.ids) <= n_results
           /\ Len(result.ids) = (IF Len(doc_scores) < n_results THEN Len(doc_scores)
                                                                ELSE n_results)
           /\ Returned \subseteq Candidates
           /\ \A i, j \in 1 .. Len(result.ids) :
                 i < j => /\ result.ids[i] # result.ids[j]
                          /\ ~RatGt(ScoreOf(result.ids[j]), ScoreOf(result.ids[i]))
           /\ \A x \in Candidates \ Returned, y \in Returned : ~RatGt(ScoreOf(x), ScoreOf(y))

\* a call that cut its result to n_results and left out a record of a lower
\* score, the record left out having entered doc_scores first
C15_Witness ==
    /\ op = "multi"
    /\ result.kind = "ok"
    /\ Len(result.ids) = n_results
    /\ Len(doc_scores) > n_results
    /\ RatGt(ScoreOf(result.ids[1]), ScoreOf(doc_scores[1].id))

\* the views queried by the call that returned record id
Contributing(id) ==
    {v \in queried : \E j \in 1 .. Len(CollectionQuery(v, df_len).ids) :
                        CollectionQuery(v, df_len).ids[j] = id}

\* C16: of two records of equal fused score the one that more views returned
\* comes first, and of two that as many views returned the one of the lower
\* id, whatever the order of the views in weights and of the records in the
\* views' results.  Stated for the calls whose weights are all positive.
C16_TiesByViewsThenId ==
    (/\ MultiCall
     /\ failing = {}
     /\ result.kind = "ok"
     /\ \A j \in 1 .. Len(weights.items) : weights.items[j].weight > 0)
        => \A i, j \in 1 .. Len(result.ids) :
              (i < j /\ RatEq(ScoreOf(result.ids[i]), ScoreOf(result.ids[j])))
                 => \/ Cardinality(Contributing(result.ids[i]))
                          > Cardinality(Contributing(result.ids[j]))
                    \/ /\ Cardinality(Contributing(result.ids[i]))
                            = Cardinality(Contributing(result.ids[j]))
                       /\ result.ids[i] < result.ids[j]

\* the items its with every weight multiplied by c
Scaled(its, c) == [j \in 1 .. Len(its) |-> [view |-> its[j].view, weight |-> its[j].weight * c]]

\* C17: the fused scores are computed with weight / (sum of the weights), so
\* the call with every weight doubled gives every record the same fused score.
C17_ScoresAreNormalisedByWeightSum ==
    (MultiCall /\ failing = {} /\ result.kind = "ok" /\ Positive # {})
        => \A id \in Candidates :
              RatEq(ScoreOf(id),
                    DictGet(MultiContextQuery(Dict(Scaled(weights.items, 2)),
                                              n_results, failing).doc_scores,
                            id, Zero))

\* what the view of item j of the last call's weights returned
ResultOf(j) == CollectionQuery(weights.items[j].view, df_len)

\* the items of the last call's weights whose view returned something
NonEmpty == {j \in 1 .. Len(weights.items) : Len(ResultOf(j).ids) > 0}

ReturnedBy(j, id) == \E a \in 1 .. Len(ResultOf(j).ids) : ResultOf(j).ids[a] = id

DistanceIn(j, id) ==
    ResultOf(j).distances[CHOOSE a \in 1 .. Len(ResultOf(j).ids) : ResultOf(j).ids[a] = id]

\* the sum over the items j .. Len(weights.items) of what each view gives
\* record id: its weighted score where the view returned id, 0 where not
RECURSIVE SumOverViews(_, _)
SumOverViews(id, j) ==
    IF j > Len(weights.items) THEN Zero
    ELSE RatAdd(IF ReturnedBy(j, id)
                THEN [num |-> (SeqMax(ResultOf(j).distances) - DistanceIn(j, id))
                                 * weights.items[j].weight,
                      den |-> SeqMax(ResultOf(j).distances)]
                ELSE Zero,
                SumOverViews(id, j + 1))

\* C19: the candidates of a call are the records that at least one of its
\* views returned; the fused score of a candidate is the sum of what the views
\* that returned it give, a view that did not return it adding exactly 0; and
\* every candidate is returned when n_results allows.
C19_FusionIsUnion ==
    (MultiCall /\ failing = {} /\ result.kind = "ok")
        => /\ Candidates = {id \in 0 .. (df_len - 1) :
                              \E j \in 1 .. Len(weights.items) : ReturnedBy(j, id)}
           /\ \A id \in Candidates : RatEq(ScoreOf(id), SumOverViews(id, 1))
           /\ n_results >= Cardinality(Candidates) => Returned = Candidates

\* the scenario's call with geographic, which does not hold record A (id 0),
\* queried first: A is returned, with the score temporal alone gives it
C19_Witness ==
    /\ C6_ScenarioCall
    /\ weights.items[1].view = "geo_context"
    /\ result.kind = "ok"
    /\ 0 \in Returned
    /\ ~ReturnedBy(1, 0)
    /\ RatEq(ScoreOf(0), [num |-> 8, den |-> 9])

\* C20: a call that queried a failing view does not return: the caller gets
\* the exception, never a result, so a call all of whose views fail is told
\* apart from a call that matches nothing.
C20_FailureIsNotAnEmptyResult ==
    MultiCall
        => /\ (queried \cap failing # {}) => result.kind = "raise"
           /\ (/\ weights.items # << >>
               /\ \A j \in 1 .. Len(weights.items) : weights.items[j].view \in failing)
                 => result = [kind |-> "raise", error |-> "IndexUnavailable"]

\* a call with two views, both failing: it raised at the first
C20_Witness ==
    /\ MultiCall
    /\ Len(weights.items) = 2
    /\ failing = Views
    /\ result.kind = "raise"
    /\ Cardinality(queried) = 1

-----------------------------------------------------------------------------
(* Part II: properties, under SpecConcurrent *)

C28_ConcurrentUpdatesLeaveOneRow ==
    (filter_kwarg /\ \A w \in Workers : pc[w] = "idle")
        => CopiesOf(1) = 1

-----------------------------------------------------------------------------
(* Part I: properties of the third group, under SpecRetrieve *)

\* the views of the last call's weights with a positive weight
PositiveViews == {weights.items[j].view : j \in Positive}

\* C22: only the views of positive weight are queried, and the call gives
\* what the call with the items of weight 0 taken out of weights gives, in
\* the same order, whatever the views of weight 0 hold and whether or not
\* they fail.
C22_ZeroWeightViewsAreNotQueried ==
    MultiCall
        => /\ queried \subseteq PositiveViews
           /\ result = MultiContextQuery(
                  Dict(SelectSeq(weights.items, LAMBDA it : it.weight > 0)),
                  n_results, failing \cap PositiveViews).result

\* C27: while no view fails, a call returns and raises nothing, whatever the
\* distances of the entries, a view all of whose entries are at distance 0
\* included.
C27_ZeroMaxDistanceDoesNotRaise ==
    (op = "multi" /\ failing = {}) => result.kind = "ok"

\* the items of the last call's weights whose view returned both x and y
BothReturnedBy(x, y) ==
    {j \in 1 .. Len(weights.items) : ReturnedBy(j, x) /\ ReturnedBy(j, y)}

\* x and y are returned by the same views and x is at least as near as y in each
NotFarther(x, y) ==
    /\ \A j \in 1 .. Len(weights.items) : ReturnedBy(j, x) <=> ReturnedBy(j, y)
    /\ \A j \in BothReturnedBy(x, y) : DistanceIn(j, x) <= DistanceIn(j, y)

\* the place of record id in the result, 0 when it is not returned
PlaceOf(id) ==
    IF id \in Returned THEN CHOOSE j \in 1 .. Len(result.ids) : result.ids[j] = id ELSE 0

\* C29: of two candidates x and y that the same views returned, x at a
\* distance not above y's in each of them, the fused score of x is not below
\* that of y; so y does not have a strictly higher score than x, and when y
\* is returned, x is not left out or placed behind y on account of its score.
C29_FusionIsMonotone ==
    (MultiCall /\ result.kind = "ok")
        => \A x, y \in Candidates :
              NotFarther(x, y)
                  => /\ ~RatGt(ScoreOf(y), ScoreOf(x))
                     /\ (y \in Returned /\ ~RatEq(ScoreOf(x), ScoreOf(y)))
                            => (x \in Returned /\ PlaceOf(x) < PlaceOf(y))

\* a call with two views of weight 1 that both return records 0 and 1,
\* record 1 nearer in one view and as near in the other: record 1 has the
\* strictly higher score and is returned first
C29_Witness ==
    /\ MultiCall
    /\ result.kind = "ok"
    /\ Len(weights.items) = 2
    /\ \A j \in 1 .. 2 : weights.items[j].weight > 0
    /\ 0 \in Candidates /\ 1 \in Candidates
    /\ NotFarther(1, 0)
    /\ \E j \in 1 .. 2 : DistanceIn(j, 1) < DistanceIn(j, 0)
    /\ \E j \in 1 .. 2 : DistanceIn(j, 1) = DistanceIn(j, 0)
    /\ RatGt(ScoreOf(1), ScoreOf(0))
    /\ result.ids[1] = 1

-----------------------------------------------------------------------------
(* Part III: properties, under SpecSetup *)

\* C23: once engineer_features has run, df has the five context columns; and
\* when setup_chroma_db has returned, each of the five collections exists,
\* is in the dict returned, is filled from a column df has, and holds exactly
\* the ids 0 .. n-1, whatever an earlier run left in the client.
C23_EveryViewIsIndexed ==
    /\ setup_pc \in {"engineered", "embedded", "done"} => EngineeredColumns \subseteq df_columns
    /\ setup_pc = "done"
         => /\ setup_collections = ContextTypeSet
            /\ \A ct \in ContextTypeSet :
                  /\ chroma[ct].exists
                  /\ chroma[ct].ids = 0 .. (n_records - 1)
                  /\ ColumnOf(ct) \in df_columns

\* setup_chroma_db has returned for a frame of MaxRows records
C23_Witness ==
    /\ setup_pc = "done"
    /\ n_records = MaxRows
    /\ \A ct \in ContextTypeSet : Cardinality(chroma[ct].ids) = MaxRows

-----------------------------------------------------------------------------
(* Part IV: properties, under SpecRate *)

\* the limit of the client of the run
ClientLimit == RateLimit(IsAuthenticated(client))

\* C24: in any window_size seconds no more requests of the client's
\* identifier are handed to call_next than its limit, 100 with a valid token
\* and 20 without.  A request is refused with 429 only when the limit is
\* reached, and a refused request is not recorded: the entries of the
\* identifier that are not expired are the requests handed on, so requests
\* are let through again when those have expired.
C24_AtMostLimitPerWindow ==
    /\ ClientLimit = (IF client.sub # None THEN AuthenticatedLimit ELSE UnauthenticatedLimit)
    /\ Len(admitted) <= ClientLimit
    /\ LET kept == Kept(requests[GetIdentifier(client)], now)
       IN  /\ Len(kept) = Len(admitted)
           /\ \A j \in 1 .. Len(kept) : kept[j].timestamp = admitted[j] /\ kept[j].count = 1
    /\ (response.status_code = 429 /\ response.time = now) => Len(admitted) = ClientLimit
    /\ (response.status_code = 200 /\ response.time = now)
         => Len(admitted) >= 1 /\ admitted[Len(admitted)] = now

\* a request without a token is refused after 20 were let through; some of
\* them were let through after earlier ones had expired
C24_Witness ==
    /\ client.sub = None
    /\ response = [status_code |-> 429, time |-> now]
    /\ now >= window_size
    /\ Len(admitted) = UnauthenticatedLimit
    /\ Len(requests[GetIdentifier(client)]) = UnauthenticatedLimit

-----------------------------------------------------------------------------
(* Part V: properties, under SpecReports *)

\* C25: a step changes the title of the stored report only when the status
\* stored at that moment is pending or draft, and removes the report only
\* when the status stored at that moment is not processing.
C25_MutationsAreGuardedByStatus ==
    [][/\ (report.exists /\ report'.exists /\ report'.title # report.title)
            => UpdateAllowed(report.status)
       /\ (report.exists /\ ~report'.exists) => DeleteAllowed(report.status)]_vars

-----------------------------------------------------------------------------
(* Part VI: properties, under SpecPerm *)

\* the user holds permission p: it is a key of the permissions dict and its
\* value is true
Holds(u, p) ==
    /\ u.permissions.kind = "dict"
    /\ p \in DOMAIN u.permissions.items
    /\ u.permissions.items[p]

\* C26: a request is admitted exactly when the user's role is admin or the
\* user holds every required permission; otherwise it is refused with 403.
C26_AdmitsExactlyHolders ==
    outcome # "none"
        => /\ outcome \in {"user", "HTTP_403"}
           /\ outcome = "user" <=> (user.role = "admin" \/ \A p \in required : Holds(user, p))

=============================================================================
